---- MODULE Spec2Model ----
(***************************************************************************)
(* A model of one Channel (src/src/agent/channel.rs): its select loop,     *)
(* the turn handler, the event handler, and the spawn protocol for         *)
(* branches and workers, at the granularity of the lock acquisitions of    *)
(* the code.                                                               *)
(***************************************************************************)
EXTENDS Integers, Sequences, FiniteSets, TLC

\* ------------------------------------------------------------------ bounds

\* ChannelConfig.max_concurrent_branches as configured for the modelled channel.
max_concurrent_branches == 1

\* Capacity of the inbound mpsc queue of the modelled channel.
QueueCap == 1

\* Capacity of the broadcast event bus as seen by this channel's receiver.
BusCap == 2

\* Number of inputs the channel is given in one run: inbound messages of the
\* transport, spawn-branch calls, spawn-worker calls and events of other
\* channels' sub-processes, in any mix.
MaxInputs == 3

\* ------------------------------------------------------------- identifiers

\* Call c of spawn_branch_from_state creates the branch with id c.
BranchCalls == 1 .. MaxInputs

\* Call w of spawn_worker_from_state creates the worker with id w.
WorkerCalls == 1 .. MaxInputs

\* The id carried by events of sub-processes this channel never spawned.
ForeignId == 0

VARIABLES
    history,            \* ChannelState.history: Seq of messages
    active_branches,    \* ChannelState.active_branches: set of BranchIds (keys)
    active_workers,     \* ChannelState.active_workers: set of WorkerIds (keys)
    status_block,       \* ChannelState.status_block: set of <<kind, id>> entries
    historyLock,        \* writer of the history RwLock: "free", "turn", "event"
    branchesLock,       \* writer of the active_branches RwLock: "free", "event"
    workersLock,        \* writer of the active_workers RwLock: "free", "event"
    message_rx,         \* the inbound mpsc queue
    event_rx,           \* events retained on the bus for this receiver
    lagged,             \* the receiver was overrun and its next recv is Err(Lagged)
    conversation_id,    \* Channel.conversation_id: "None" or the id
    chanPc,             \* position of the channel task
    curMsg,             \* the message handle_message is handling
    curEvent,           \* the event handle_event is handling
    should_retrigger,   \* local of handle_event
    evHistLen,          \* length of history when handle_event was entered
    lastReturn,         \* what the handler returned to the loop
    turnLog,            \* collaborator calls handle_message made, in order
    agentResult,        \* result of agent.prompt in the current turn
    bpc,                \* position of each spawn_branch_from_state call
    bByTurn,            \* the call was issued by a tool call of the running turn
    btask,              \* state of each branch task
    bhistory,           \* Branch.history: the Vec each running branch owns
    wpc,                \* position of each spawn_worker_from_state call
    wtask,              \* state of each worker task
    emitted,            \* WorkerComplete events sent per worker id
    inputs,             \* inputs given so far
    externalOpen        \* holders outside the channel still own its senders

chanVars == <<chanPc, curMsg, curEvent, should_retrigger, evHistLen, lastReturn,
              turnLog, agentResult, conversation_id>>
stateVars == <<history, active_branches, active_workers, status_block>>
lockVars == <<historyLock, branchesLock, workersLock>>
branchVars == <<bpc, bByTurn, btask, bhistory>>
workerVars == <<wpc, wtask, emitted>>
vars == <<history, active_branches, active_workers, status_block, historyLock,
          branchesLock, workersLock, message_rx, event_rx, lagged,
          conversation_id, chanPc, curMsg, curEvent, should_retrigger,
          evHistLen, lastReturn, turnLog, agentResult, bpc, bByTurn, btask,
          bhistory, wpc, wtask, emitted, inputs, externalOpen>>

\* ---------------------------------------------------------------- messages

NoMsg == [source |-> "none", sender |-> "none", text |-> "none", conversation_id |-> "None"]

UserMsg == [source |-> "discord", sender |-> "Alice", text |-> "hi", conversation_id |-> "conv"]

RetriggerText == "[System: a background process has completed. Check your history and status block for the result, then respond to the user.]"

SyntheticMsg(conv) ==
    [source |-> "system", sender |-> "system", text |-> RetriggerText, conversation_id |-> conv]

NoEvent == [type |-> "none", id |-> ForeignId, payload |-> <<>>, notify |-> FALSE]

BranchResult(b, conclusion) ==
    [type |-> "BranchResult", id |-> b, payload |-> conclusion, notify |-> FALSE]

WorkerComplete(w, result, notify) ==
    [type |-> "WorkerComplete", id |-> w, payload |-> result, notify |-> notify]

OtherEvent == [type |-> "Other", id |-> ForeignId, payload |-> <<>>, notify |-> FALSE]

\* format_user_message: system messages pass through, others get "[name]: ".
format_user_message(m) ==
    IF m.source = "system" THEN <<m.text>> ELSE <<"[", m.sender, "]: ", m.text>>

\* format!("[Branch result]: {conclusion}")
BranchMessage(conclusion) == <<"[Branch result]: ">> \o conclusion

\* format!("[Worker completed]: {result}")
WorkerMessage(result) == <<"[Worker completed]: ">> \o result

\* format!("Worker failed: {error}")
WorkerFailed(error) == <<"Worker failed: ", error>>

\* A bus without a buffer: only a receiver that is awaiting recv() gets the value.
BusSendUnbuffered(e) ==
    IF chanPc = "select" /\ Len(event_rx) < BusCap
    THEN /\ event_rx' = Append(event_rx, e)
         /\ UNCHANGED lagged
    ELSE UNCHANGED <<event_rx, lagged>>

\* broadcast::Sender::send: never blocks; a full buffer overwrites the oldest
\* retained value and the overrun receiver is marked lagged.
BusSend(e) ==
    IF Len(event_rx) < BusCap
    THEN /\ event_rx' = Append(event_rx, e)
         /\ UNCHANGED lagged
    ELSE /\ event_rx' = Append(Tail(event_rx), e)
         /\ lagged' = TRUE

\* StatusBlock::update(event): completion events clear the entry of their id.
StatusUpdate(s, e) ==
    CASE e.type = "BranchResult" -> s \ {<<"branch", e.id>>}
      [] e.type = "WorkerComplete" -> s \ {<<"worker", e.id>>}
      [] OTHER -> s

Init ==
    /\ history = <<>>
    /\ active_branches = {}
    /\ active_workers = {}
    /\ status_block = {}
    /\ historyLock = "free"
    /\ branchesLock = "free"
    /\ workersLock = "free"
    /\ message_rx = <<>>
    /\ event_rx = <<>>
    /\ lagged = FALSE
    /\ conversation_id = "None"
    /\ chanPc = "select"
    /\ curMsg = NoMsg
    /\ curEvent = NoEvent
    /\ should_retrigger = FALSE
    /\ evHistLen = 0
    /\ lastReturn = "none"
    /\ turnLog = <<>>
    /\ agentResult = "none"
    /\ bpc = [c \in BranchCalls |-> "idle"]
    /\ bByTurn = [c \in BranchCalls |-> FALSE]
    /\ btask = [c \in BranchCalls |-> "none"]
    /\ bhistory = [c \in BranchCalls |-> <<>>]
    /\ wpc = [w \in WorkerCalls |-> "idle"]
    /\ wtask = [w \in WorkerCalls |-> "none"]
    /\ emitted = [w \in WorkerCalls |-> 0]
    /\ inputs = 0
    /\ externalOpen = TRUE

\* ------------------------------------------------------------ Channel::run

\* A loop that keeps polling while a turn runs.
PollingDuringTurn == chanPc \in {"select", "agent"}

\* select!: both branches are polled.
Polling == chanPc = "select"

\* select!: the message branch is polled (also after the event branch of this
\* select was disabled by a pattern mismatch).
PollingMsg == chanPc \in {"select", "select_msg"}

\* The Channel owns self_tx, a sender of its inbound queue, and deps.event_tx,
\* a sender of the bus, until run(mut self) returns and drops it.
OwnSendersHeld == chanPc # "stopped"

\* message_rx.recv() yields None: the queue is empty and every sender is gone.
MessageClosed == ~externalOpen /\ ~OwnSendersHeld /\ message_rx = <<>>

\* event_rx.recv() yields Err(Closed): nothing is retained and every sender is
\* gone, those of running branch and worker tasks included.
BusClosed ==
    /\ ~externalOpen
    /\ ~OwnSendersHeld
    /\ event_rx = <<>>
    /\ \A c \in BranchCalls : btask[c] # "running"
    /\ \A w \in WorkerCalls : wtask[w] # "running"

\* recv() returned Err(Lagged): the pattern Ok(event) does not match, the event
\* branch is disabled for this select! and only the message branch is awaited;
\* with the message branch disabled as well (recv() yields None), else => break.
RecvLagged ==
    /\ Polling
    /\ lagged
    /\ lagged' = FALSE
    /\ chanPc' = IF MessageClosed THEN "stopped" ELSE "select_msg"
    /\ UNCHANGED <<stateVars, lockVars, message_rx, event_rx, conversation_id, curMsg,
                   curEvent, should_retrigger, evHistLen, lastReturn, turnLog,
                   agentResult, branchVars, workerVars, inputs, externalOpen>>

\* A loop that propagates the handler's Err with `?`.
AfterHandlerPropagate(ret) == IF ret = "Err" THEN "stopped" ELSE "select"

\* if let Err(error) = handler { tracing::error!(..) }: the loop goes on to the
\* next select! whatever the handler returned.
AfterHandler(ret) == "select"

\* The handler returned: an Err is logged, and the loop selects again.
LoopContinue ==
    /\ chanPc = "returned"
    /\ chanPc' = AfterHandler(lastReturn)
    /\ lastReturn' = "none"
    /\ turnLog' = <<>>
    /\ agentResult' = "none"
    /\ curMsg' = NoMsg
    /\ curEvent' = NoEvent
    /\ should_retrigger' = FALSE
    /\ evHistLen' = 0
    /\ UNCHANGED <<stateVars, lockVars, message_rx, event_rx, lagged, conversation_id,
                   branchVars, workerVars, inputs, externalOpen>>

\* ------------------------------------------------- Channel::handle_message

\* What the completion agent does to the history it is handed: it pushes the prompt.
AgentAppend(h, m) == Append(h, format_user_message(m))

\* Some(message) = self.message_rx.recv() => handle_message(message):
\* conversation_id capture, add_channel_tools, the Thinking status,
\* history.write().await, and agent.prompt(..).with_history(&mut history)
\* starts running with the write guard held. When add_channel_tools fails the
\* handler returns Err right there.
TurnBegin ==
    /\ PollingMsg
    /\ message_rx # <<>>
    /\ curMsg' = Head(message_rx)
    /\ message_rx' = Tail(message_rx)
    /\ conversation_id' = IF conversation_id = "None"
                          THEN Head(message_rx).conversation_id
                          ELSE conversation_id
    /\ \E registered \in BOOLEAN :
          IF registered
          THEN /\ turnLog' = <<"add_channel_tools", "Thinking", "prompt">>
               /\ historyLock = "free"
               /\ historyLock' = "turn"
               /\ history' = AgentAppend(history, Head(message_rx))
               /\ chanPc' = "agent"
               /\ UNCHANGED lastReturn
          ELSE /\ turnLog' = <<"add_channel_tools">>
               /\ lastReturn' = "Err"
               /\ chanPc' = "returned"
               /\ UNCHANGED <<historyLock, history>>
    /\ UNCHANGED <<active_branches, active_workers, status_block, branchesLock,
                   workersLock, event_rx, lagged, curEvent, should_retrigger,
                   evHistLen, agentResult, branchVars, workerVars, inputs, externalOpen>>

AgentResults == {"ok_text", "ok_empty", "max_turns", "cancelled", "error"}

\* A tool call of the running turn has not returned yet.
ToolCallPending ==
    \E c \in BranchCalls : bByTurn[c] /\ bpc[c] \in {"checked", "launched", "inserted"}

\* A cleanup that is skipped when the agent failed.
CleanupOnSuccess(r) ==
    IF r \in {"ok_text", "ok_empty"} THEN <<"remove_channel_tools">> ELSE <<>>

\* remove_channel_tools is called after the agent returned, whatever its
\* result r.
Cleanup(r) == <<"remove_channel_tools">>

\* What handle_message returns after the agent ran with result r and
\* remove_channel_tools succeeded or not: the failure of the removal is only
\* logged, every arm of the match falls through to Ok(()).
TurnReturn(r, removed) == "Ok"

\* A match that answers a failed turn with a fallback text.
ReplyOnFailure(r) == IF r = "ok_empty" THEN <<>> ELSE <<"Text">>

\* match result: only a non-empty Ok text is sent; every Err arm only logs.
Reply(r) == IF r = "ok_text" THEN <<"Text">> ELSE <<>>

\* agent.prompt(..).await returns, drop(history); remove_channel_tools (a
\* failure is only logged); match result: a non-empty Ok text is sent; Ok(()).
TurnEnd ==
    /\ chanPc = "agent"
    /\ ~ToolCallPending
    /\ historyLock' = "free"
    /\ \E r \in AgentResults, removed \in BOOLEAN :
          /\ agentResult' = r
          /\ turnLog' = turnLog \o Cleanup(r) \o Reply(r)
          /\ lastReturn' = TurnReturn(r, removed)
    /\ chanPc' = "returned"
    /\ UNCHANGED <<stateVars, branchesLock, workersLock, message_rx, event_rx, lagged,
                   conversation_id, curMsg, curEvent, should_retrigger, evHistLen,
                   branchVars, workerVars, inputs, externalOpen>>

\* --------------------------------------------------- Channel::handle_event

\* Ok(event) = self.event_rx.recv() => handle_event(event): the status block
\* update, then branches.remove(branch_id) / workers.remove(worker_id) under
\* the write lock of the map; the guard lives to the end of the match arm.
EventBegin ==
    /\ Polling
    /\ ~lagged
    /\ event_rx # <<>>
    /\ LET e == Head(event_rx) IN
       /\ curEvent' = e
       /\ event_rx' = Tail(event_rx)
       /\ status_block' = StatusUpdate(status_block, e)
       /\ should_retrigger' = FALSE
       /\ evHistLen' = Len(history)
       /\ CASE e.type = "BranchResult" ->
                 /\ branchesLock = "free"
                 /\ active_branches' = active_branches \ {e.id}
                 /\ branchesLock' = "event"
                 /\ chanPc' = "ev_hist"
                 /\ UNCHANGED <<active_workers, workersLock>>
            [] e.type = "WorkerComplete" ->
                 /\ workersLock = "free"
                 /\ active_workers' = active_workers \ {e.id}
                 /\ workersLock' = IF e.notify THEN "event" ELSE "free"
                 /\ chanPc' = IF e.notify THEN "ev_hist" ELSE "ev_retrigger"
                 /\ UNCHANGED <<active_branches, branchesLock>>
            [] OTHER ->
                 /\ chanPc' = "ev_retrigger"
                 /\ UNCHANGED <<active_branches, active_workers, branchesLock,
                                workersLock>>
    /\ UNCHANGED <<history, historyLock, message_rx, lagged, conversation_id, curMsg,
                   lastReturn, turnLog, agentResult, branchVars, workerVars, inputs, externalOpen>>

\* A history entry without its prefix.
EventEntryBare(e) == e.payload

\* The history entry handle_event pushes for a completion event.
EventEntry(e) ==
    IF e.type = "BranchResult" THEN BranchMessage(e.payload) ELSE WorkerMessage(e.payload)

\* An entry inserted at the front of history.
EventPushFront(h, e) == <<EventEntry(e)>> \o h

\* What handle_event does to history once it holds the write lock.
EventPush(h, e) == Append(h, EventEntry(e))

\* history.write().await; history.push(..); should_retrigger = true; end of arm.
EventHistory ==
    /\ chanPc = "ev_hist"
    /\ historyLock = "free"
    /\ history' = EventPush(history, curEvent)
    /\ should_retrigger' = TRUE
    /\ branchesLock' = "free"
    /\ workersLock' = "free"
    /\ chanPc' = "ev_retrigger"
    /\ UNCHANGED <<active_branches, active_workers, status_block, historyLock,
                   message_rx, event_rx, lagged, conversation_id, curMsg, curEvent,
                   evHistLen, lastReturn, turnLog, agentResult, branchVars,
                   workerVars, inputs, externalOpen>>

\* A send that ignores the capacity of the queue.
TrySendUnbounded(q, m) == Append(q, m)

\* self_tx.try_send(synthetic): Err(Full) is logged and the message dropped.
TrySend(q, m) == IF Len(q) < QueueCap THEN Append(q, m) ELSE q

\* A retrigger block that ignores should_retrigger.
RetriggerUnflagged(q, flagged, conv) ==
    IF conv # "None" THEN Append(q, SyntheticMsg(conv)) ELSE q

\* A retrigger block that sends without a conversation_id.
RetriggerAnonymous(q, flagged, conv) ==
    IF flagged THEN TrySend(q, SyntheticMsg(conv)) ELSE q

\* What the retrigger block of handle_event does to the inbound queue.
Retrigger(q, flagged, conv) ==
    IF flagged /\ conv # "None" THEN TrySend(q, SyntheticMsg(conv)) ELSE q

\* if should_retrigger { if let Some(conversation_id) .. try_send }; Ok(())
EventRetrigger ==
    /\ chanPc = "ev_retrigger"
    /\ message_rx' = Retrigger(message_rx, should_retrigger, conversation_id)
    /\ lastReturn' = "Ok"
    /\ chanPc' = "returned"
    /\ UNCHANGED <<stateVars, lockVars, event_rx, lagged, conversation_id, curMsg,
                   curEvent, should_retrigger, evHistLen, turnLog, agentResult,
                   branchVars, workerVars, inputs, externalOpen>>

\* ------------------------------------------------- spawn_branch_from_state

\* The limit check with an off-by-one comparison.
AtBranchLimitStrict(branches) == Cardinality(branches) > max_concurrent_branches

\* branches.len() >= state.max_concurrent_branches
AtBranchLimit(branches) == Cardinality(branches) >= max_concurrent_branches

\* Call c is the next one to be made (calls are interchangeable; they are made
\* in the order of their ids).
NextBranchCall(c) == bpc[c] = "idle" /\ (IF c = 1 THEN TRUE ELSE bpc[c - 1] # "idle")

\* The limit check under the read lock of active_branches; the lock is released
\* at the end of the block. byTurn: the call comes from a tool call of the
\* completion agent of the running turn, which awaits the tool's result.
BranchCheck(c, byTurn) ==
    /\ inputs < MaxInputs
    /\ inputs' = inputs + 1
    /\ NextBranchCall(c)
    /\ IF byTurn THEN chanPc = "agent" ELSE externalOpen
    /\ branchesLock = "free"
    /\ bpc' = [bpc EXCEPT ![c] = IF AtBranchLimit(active_branches)
                                 THEN "BranchLimitReached" ELSE "checked"]
    /\ bByTurn' = [bByTurn EXCEPT ![c] = byTurn /\ ~AtBranchLimit(active_branches)]
    /\ UNCHANGED <<stateVars, lockVars, message_rx, event_rx, lagged, chanVars, btask,
                   bhistory, workerVars, externalOpen>>

\* A branch that shares the channel's Vec instead of owning a clone of it.
BranchViewShared(c) == history

\* The history branch c works on: the Vec moved into Branch::new.
BranchView(c) == bhistory[c]

\* state.history.read().await; h.clone(); Branch::new(..); tokio::spawn(..)
BranchLaunch(c) ==
    /\ bpc[c] = "checked"
    /\ historyLock = "free"
    /\ bhistory' = [bhistory EXCEPT ![c] = history]
    /\ btask' = [btask EXCEPT ![c] = "running"]
    /\ bpc' = [bpc EXCEPT ![c] = "launched"]
    /\ UNCHANGED <<stateVars, lockVars, message_rx, event_rx, lagged, chanVars, bByTurn,
                   workerVars, inputs, externalOpen>>

\* state.active_branches.write().await; branches.insert(branch_id, handle)
BranchInsert(c) ==
    /\ bpc[c] = "launched"
    /\ branchesLock = "free"
    /\ active_branches' = active_branches \cup {c}
    /\ bpc' = [bpc EXCEPT ![c] = "inserted"]
    /\ UNCHANGED <<history, active_workers, status_block, lockVars, message_rx,
                   event_rx, lagged, chanVars, bByTurn, btask, bhistory, workerVars,
                   inputs, externalOpen>>

\* status.add_branch(branch_id, "thinking..."); Ok(branch_id)
BranchStatus(c) ==
    /\ bpc[c] = "inserted"
    /\ status_block' = status_block \cup {<<"branch", c>>}
    /\ bpc' = [bpc EXCEPT ![c] = "Ok"]
    /\ bByTurn' = [bByTurn EXCEPT ![c] = FALSE]
    /\ UNCHANGED <<history, active_branches, active_workers, lockVars, message_rx,
                   event_rx, lagged, chanVars, btask, bhistory, workerVars, inputs,
                   externalOpen>>

\* The branch task: branch.run(&prompt) ends with a conclusion, published as a
\* BranchResult event by the branch.
BranchTaskResult(c) ==
    /\ btask[c] = "running"
    /\ BusSend(BranchResult(c, <<"conclusion">>))
    /\ btask' = [btask EXCEPT ![c] = "done"]
    /\ bhistory' = [bhistory EXCEPT ![c] = <<>>]
    /\ UNCHANGED <<stateVars, lockVars, message_rx, chanVars, bpc, bByTurn, workerVars,
                   inputs, externalOpen>>

\* A failing branch task that takes its own entry out of active_branches.
BranchTaskFailReaps(c) ==
    /\ btask[c] = "running"
    /\ branchesLock = "free"
    /\ btask' = [btask EXCEPT ![c] = "failed"]
    /\ bhistory' = [bhistory EXCEPT ![c] = <<>>]
    /\ active_branches' = active_branches \ {c}
    /\ UNCHANGED <<history, active_workers, status_block, lockVars, message_rx,
                   event_rx, lagged, chanVars, bpc, bByTurn, workerVars, inputs,
                   externalOpen>>

\* The branch task: branch.run(&prompt) returns Err; the task logs it and ends.
BranchTaskFail(c) ==
    /\ btask[c] = "running"
    /\ btask' = [btask EXCEPT ![c] = "failed"]
    /\ bhistory' = [bhistory EXCEPT ![c] = <<>>]
    /\ UNCHANGED <<stateVars, lockVars, message_rx, event_rx, lagged, chanVars, bpc,
                   bByTurn, workerVars, inputs, externalOpen>>

\* ------------------------------------------------- spawn_worker_from_state

NextWorkerCall(w) == wpc[w] = "idle" /\ (IF w = 1 THEN TRUE ELSE wpc[w - 1] # "idle")

\* What spawn_worker_from_state does to active_workers: nothing, the Worker is
\* moved into its task.
WorkerRegister(workers, w) == workers

\* Worker::new / Worker::new_interactive; tokio::spawn(..)
WorkerLaunch(w) ==
    /\ inputs < MaxInputs
    /\ inputs' = inputs + 1
    /\ NextWorkerCall(w)
    /\ externalOpen \/ chanPc = "agent"
    /\ wtask' = [wtask EXCEPT ![w] = "running"]
    /\ wpc' = [wpc EXCEPT ![w] = "launched"]
    /\ active_workers' = WorkerRegister(active_workers, w)
    /\ UNCHANGED <<history, active_branches, status_block, lockVars, message_rx,
                   event_rx, lagged, chanVars, branchVars, emitted, externalOpen>>

\* status.add_worker(worker_id, &task, false); Ok(worker_id)
WorkerStatus(w) ==
    /\ wpc[w] = "launched"
    /\ status_block' = status_block \cup {<<"worker", w>>}
    /\ wpc' = [wpc EXCEPT ![w] = "Ok"]
    /\ UNCHANGED <<history, active_branches, active_workers, lockVars, message_rx,
                   event_rx, lagged, chanVars, branchVars, wtask, emitted, inputs, externalOpen>>

\* A worker task that only logs a failed run.
WorkerTaskEventsLogOnly(w, ok) ==
    IF ok THEN <<WorkerComplete(w, <<"result">>, TRUE)>> ELSE <<>>

\* The events the worker task sends for the outcome of worker.run().
WorkerTaskEvents(w, ok) ==
    IF ok THEN <<WorkerComplete(w, <<"result">>, TRUE)>>
          ELSE <<WorkerComplete(w, WorkerFailed("error"), TRUE)>>

\* The worker task: worker.run().await, then the WorkerComplete of its outcome.
WorkerTaskFinish(w) ==
    /\ wtask[w] = "running"
    /\ \E ok \in BOOLEAN :
          LET evs == WorkerTaskEvents(w, ok) IN
          /\ emitted' = [emitted EXCEPT ![w] = @ + Len(evs)]
          /\ IF evs = <<>>
             THEN UNCHANGED <<event_rx, lagged>>
             ELSE BusSend(evs[1])
    /\ wtask' = [wtask EXCEPT ![w] = "done"]
    /\ UNCHANGED <<stateVars, lockVars, message_rx, chanVars, branchVars, wpc, inputs, externalOpen>>

\* ------------------------------------------------------------- environment

\* The transport sends an inbound message (mpsc send: waits for capacity).
ExternalSend ==
    /\ externalOpen
    /\ inputs < MaxInputs
    /\ inputs' = inputs + 1
    /\ Len(message_rx) < QueueCap
    /\ message_rx' = Append(message_rx, UserMsg)
    /\ UNCHANGED <<stateVars, lockVars, event_rx, lagged, chanVars, branchVars,
                   workerVars, externalOpen>>

ForeignEvents ==
    { BranchResult(ForeignId, <<"elsewhere">>),
      WorkerComplete(ForeignId, <<"elsewhere">>, TRUE),
      WorkerComplete(ForeignId, <<"elsewhere">>, FALSE),
      OtherEvent }

\* A sub-process of another channel publishes an event on the shared bus.
ForeignEvent ==
    /\ externalOpen
    /\ inputs < MaxInputs
    /\ inputs' = inputs + 1
    /\ \E e \in ForeignEvents : BusSend(e)
    /\ UNCHANGED <<stateVars, lockVars, message_rx, chanVars, branchVars, workerVars,
                   externalOpen>>

\* ----------------------------------------------------------- specification

Next ==
    \/ TurnBegin
    \/ TurnEnd
    \/ EventBegin
    \/ EventHistory
    \/ EventRetrigger
    \/ RecvLagged
    \/ LoopContinue
    \/ \E c \in BranchCalls, byTurn \in BOOLEAN : BranchCheck(c, byTurn)
    \/ \E c \in BranchCalls : BranchLaunch(c)
    \/ \E c \in BranchCalls : BranchInsert(c)
    \/ \E c \in BranchCalls : BranchStatus(c)
    \/ \E c \in BranchCalls : BranchTaskResult(c)
    \/ \E c \in BranchCalls : BranchTaskFail(c)
    \/ \E w \in WorkerCalls : WorkerLaunch(w)
    \/ \E w \in WorkerCalls : WorkerStatus(w)
    \/ \E w \in WorkerCalls : WorkerTaskFinish(w)
    \/ ExternalSend
    \/ ForeignEvent

Spec == Init /\ [][Next]_vars

\* The transport, the other channels and every other holder outside the
\* channel drop their senders of the inbound queue and of the bus.
DropExternal ==
    /\ externalOpen
    /\ externalOpen' = FALSE
    /\ UNCHANGED <<stateVars, lockVars, message_rx, event_rx, lagged, chanVars,
                   branchVars, workerVars, inputs>>

NextShutdown == Next \/ DropExternal

\* The channel in a system that may shut its input sources.
SpecShutdown == Init /\ [][NextShutdown]_vars


\* ------------------------------------------------------------------ claims

IsPrefix(a, b) == Len(a) <= Len(b) /\ SubSeq(b, 1, Len(a)) = a

Completion(e) == e.type \in {"BranchResult", "WorkerComplete"}

\* The channel task takes a step.
ChannelStep == chanPc' # chanPc

\* C1: in every reachable state the number of entries of ActiveBranches is at
\* most max_concurrent_branches.
BranchCapRespected == Cardinality(active_branches) <= max_concurrent_branches

\* C2: a spawn-branch call made while ActiveBranches holds at least
\* max_concurrent_branches entries returns BranchLimitReached, changes neither
\* ActiveBranches nor the status block nor history, and launches no branch task.
LimitRejects ==
    [][\A c \in BranchCalls :
          /\ (bpc[c] = "idle" /\ bpc'[c] # "idle"
                /\ Cardinality(active_branches) >= max_concurrent_branches)
             => /\ bpc'[c] = "BranchLimitReached"
                /\ UNCHANGED <<active_branches, status_block, history, btask>>
          /\ bpc[c] = "BranchLimitReached"
             => (bpc'[c] = "BranchLimitReached" /\ btask'[c] = "none")]_vars

\* C2 witness: a call was rejected while a branch is tracked.
LimitRejectsWitness ==
    \E c \in BranchCalls :
        /\ bpc[c] = "BranchLimitReached"
        /\ Cardinality(active_branches) = max_concurrent_branches

\* C3: a worker task that has not finished has sent no WorkerComplete, and one
\* that has finished, with a successful or a failed run, has sent exactly one.
WorkerCompleteOnce ==
    \A w \in WorkerCalls :
        /\ wtask[w] \in {"none", "running"} => emitted[w] = 0
        /\ wtask[w] = "done" => emitted[w] = 1

\* C3 witness: a worker whose run failed has finished and its event is on the bus.
WorkerCompleteOnceWitness ==
    \E w \in WorkerCalls :
        /\ wtask[w] = "done"
        /\ emitted[w] = 1
        /\ \E i \in 1 .. Len(event_rx) :
              event_rx[i] = WorkerComplete(w, WorkerFailed("error"), TRUE)

\* C4: a worker whose spawn-worker call has returned and whose completion
\* event has not been sent yet has an entry in ActiveWorkers.
WorkerTracked ==
    \A w \in WorkerCalls : (wpc[w] = "Ok" /\ wtask[w] = "running") => w \in active_workers

\* C5: handling a completion event whose id this channel never tracked
\* changes neither history nor the tracking maps and sends no retrigger.
UntrackedEventIgnored ==
    [][(ChannelStep /\ chanPc \in {"ev_hist", "ev_retrigger"}
          /\ Completion(curEvent) /\ curEvent.id = ForeignId)
       => UNCHANGED <<history, active_branches, active_workers, message_rx>>]_vars

\* C6: once handle_event is past the arm of a BranchResult, or of a
\* WorkerComplete with notify, history holds exactly one more entry than at
\* entry, "[Branch result]: {conclusion}" or "[Worker completed]: {result}",
\* and the retrigger is flagged; while the arm holds the map's lock the id is
\* not in the map.
CompletionApplied ==
    /\ (chanPc = "ev_hist" /\ curEvent.type = "BranchResult")
          => curEvent.id \notin active_branches
    /\ (chanPc = "ev_hist" /\ curEvent.type = "WorkerComplete")
          => curEvent.id \notin active_workers
    /\ (chanPc \in {"ev_retrigger", "returned"} /\ curEvent.type = "BranchResult")
          => /\ Len(history) = evHistLen + 1
             /\ history[Len(history)] = <<"[Branch result]: ">> \o curEvent.payload
             /\ should_retrigger
    /\ (chanPc \in {"ev_retrigger", "returned"} /\ curEvent.type = "WorkerComplete"
          /\ curEvent.notify)
          => /\ Len(history) = evHistLen + 1
             /\ history[Len(history)] = <<"[Worker completed]: ">> \o curEvent.payload
             /\ should_retrigger

\* C6 witness: the completion of a worker of this channel has been applied
\* after the result of one of its branches.
CompletionAppliedWitness ==
    /\ chanPc = "returned"
    /\ curEvent.type = "WorkerComplete"
    /\ curEvent.id \in WorkerCalls
    /\ \E i \in 1 .. Len(history) : history[i] = BranchMessage(<<"conclusion">>)

\* C7: handle_event of a WorkerComplete with notify = false leaves the worker
\* out of ActiveWorkers, appends nothing to history and sends no retrigger.
SilentCompletion ==
    [][(ChannelStep /\ chanPc = "ev_retrigger"
          /\ curEvent.type = "WorkerComplete" /\ ~curEvent.notify)
       => /\ Len(history) = evHistLen
          /\ curEvent.id \notin active_workers
          /\ UNCHANGED <<history, message_rx>>]_vars

\* C7 witness: a notify = false completion was handled while a retrigger
\* could have been sent.
SilentCompletionWitness ==
    /\ chanPc = "returned"
    /\ curEvent.type = "WorkerComplete"
    /\ ~curEvent.notify
    /\ conversation_id # "None"
    /\ message_rx = <<>>

\* C8: while a turn holds the write lock of history the channel neither
\* begins another turn nor handles an event, and history is not appended to;
\* an event's entry is appended only with the lock free.
TurnsExclusive ==
    [][/\ historyLock = "turn"
          => /\ chanPc' \in {"agent", "returned"}
             /\ curMsg' = curMsg
             /\ curEvent' = NoEvent
             /\ history' = history
       /\ (chanPc = "ev_hist" /\ history' # history) => historyLock = "free"]_vars

\* C8 witness: a turn holds the lock while an event and a message are pending.
TurnsExclusiveWitness ==
    /\ historyLock = "turn"
    /\ event_rx # <<>>
    /\ message_rx # <<>>

\* C9: every step leaves the former history as a prefix of the new one.
HistoryAppendOnly == [][IsPrefix(history, history')]_vars

\* C9 witness: history holds the entry of a turn followed by the entry of an event.
HistoryAppendOnlyWitness ==
    /\ Len(history) >= 2
    /\ history[1] = format_user_message(UserMsg)
    /\ history[2][1] \in {"[Branch result]: ", "[Worker completed]: "}

\* C10: the retrigger step of handle_event returns Ok without waiting, puts at
\* most one synthetic message on the inbound queue and none when the queue is
\* full, and keeps the event's removal and history entry; no other step of the
\* handler, and not the loop afterwards, sends one.
RetriggerBestEffort ==
    [][/\ (ChannelStep /\ chanPc = "ev_retrigger")
          => /\ chanPc' = "returned"
             /\ lastReturn' = "Ok"
             /\ \/ message_rx' = message_rx
                \/ message_rx' = Append(message_rx, SyntheticMsg(conversation_id))
             /\ Len(message_rx) >= QueueCap => message_rx' = message_rx
             /\ UNCHANGED <<history, active_branches, active_workers>>
       /\ (ChannelStep /\ (chanPc' \in {"ev_hist", "ev_retrigger"}
                            \/ (chanPc = "returned" /\ curEvent # NoEvent)))
          => message_rx' = message_rx]_vars

\* C10 witness: a flagged retrigger was dropped on a full queue and the
\* event's history entry is in place.
RetriggerBestEffortWitness ==
    /\ chanPc = "returned"
    /\ should_retrigger
    /\ conversation_id # "None"
    /\ Len(message_rx) = QueueCap
    /\ \A i \in 1 .. Len(message_rx) : message_rx[i].source # "system"
    /\ Len(history) = evHistLen + 1

\* The responses handle_message sent on response_tx, in order.
Responses(log) == SelectSeq(log, LAMBDA x : x \in {"Thinking", "Text"})

\* C11 (as stated): a turn whose agent fails with MaxTurnsError has sent nothing
\* on response_tx, handle_message returned Ok and the loop goes on.
MaxTurnsSilent ==
    (chanPc = "returned" /\ agentResult = "max_turns")
        => /\ Responses(turnLog) = <<>>
           /\ lastReturn = "Ok"
           /\ ENABLED LoopContinue

\* C11 (amended): a turn whose agent fails with MaxTurnsError has sent the
\* Thinking status (before the agent ran) and nothing else, handle_message
\* returned Ok and the loop goes on to its next select.
MaxTurnsNoReply ==
    (chanPc = "returned" /\ agentResult = "max_turns")
        => /\ Responses(turnLog) = <<"Thinking">>
           /\ lastReturn = "Ok"
           /\ ENABLED LoopContinue

MaxTurnsNoReplyWitness ==
    /\ chanPc = "returned"
    /\ agentResult = "max_turns"
    /\ message_rx # <<>>

\* C12: the loop is left only when both input sources are closed; a failed
\* handler or a failed receive never ends it.
LoopSurvivesFailures ==
    /\ chanPc = "stopped" => (MessageClosed /\ BusClosed)
    /\ (chanPc = "returned" /\ lastReturn = "Err") => ENABLED LoopContinue

LoopSurvivesFailuresWitness ==
    /\ chanPc = "select_msg"
    /\ ~externalOpen
    /\ event_rx # <<>>

\* C13: once every holder outside the channel has dropped its senders, the
\* channel is not left waiting in its loop with nothing more to happen: it has
\* left the loop or a step is still to come.
LoopExits == ~externalOpen => (chanPc = "stopped" \/ ENABLED NextShutdown)

Last(q) == q[Len(q)]

\* The step overruns the receiver: the bus is full and one more event is sent.
Overrun == Len(event_rx) = BusCap /\ lagged' /\ event_rx' # event_rx

\* The step hands the oldest retained event to handle_event.
Received ==
    /\ chanPc = "select"
    /\ event_rx # <<>>
    /\ event_rx' = Tail(event_rx)
    /\ curEvent' = Head(event_rx)
    /\ chanPc' \in {"ev_hist", "ev_retrigger"}

\* C14: an event published while a turn runs is retained on the bus and is
\* taken off it only by the loop handing it to handle_event, after the turn;
\* short of an overrun of the bus no published event is dropped, and a
\* retained event can be received as soon as the loop selects.
EventsNotLost ==
    [][ /\ \A w \in WorkerCalls :
              (wtask[w] = "running" /\ wtask'[w] = "done")
                  => /\ event_rx' # <<>>
                     /\ Last(event_rx').type = "WorkerComplete"
                     /\ Last(event_rx').id = w
        /\ \A c \in BranchCalls :
              (btask[c] = "running" /\ btask'[c] = "done")
                  => /\ event_rx' # <<>>
                     /\ Last(event_rx').type = "BranchResult"
                     /\ Last(event_rx').id = c
        /\ (inputs' # inputs /\ message_rx' = message_rx /\ bpc' = bpc /\ wpc' = wpc)
              => (event_rx' # <<>> /\ Last(event_rx') \in ForeignEvents)
        /\ IsPrefix(event_rx, event_rx') \/ Overrun \/ Received
        /\ historyLock = "turn" => (IsPrefix(event_rx, event_rx') \/ Overrun)
        /\ (chanPc = "select" /\ event_rx # <<>> /\ ~lagged) => ENABLED EventBegin
      ]_vars

EventsNotLostWitness ==
    /\ historyLock = "turn"
    /\ Len(event_rx) = BusCap
    /\ ~lagged
    /\ \E w \in WorkerCalls : wtask[w] = "done"

\* C15: the event handler never waits for the history lock while it holds the
\* write lock of active_branches or of active_workers (no lock is requested
\* while another is held).
NoNestedLocks ==
    chanPc = "ev_hist" => (branchesLock = "free" /\ workersLock = "free")

\* C16: a branch works on a copy of the channel history taken when it is
\* spawned: spawn-branch and the branch task leave the channel history as it
\* is, and what the channel appends later does not show in the branch's copy.
SnapshotIsolated ==
    [][ \A c \in BranchCalls :
          /\ (btask[c] = "none" /\ btask'[c] = "running")
                => (BranchView(c)' = history /\ history' = history)
          /\ (btask[c] = "running" /\ btask'[c] = "running")
                => BranchView(c)' = BranchView(c)
          /\ (bpc'[c] # bpc[c] \/ btask'[c] # btask[c]) => history' = history
      ]_vars

SnapshotIsolatedWitness ==
    \E c \in BranchCalls :
        /\ btask[c] = "running"
        /\ BranchView(c) # <<>>
        /\ Len(history) > Len(BranchView(c))

\* The branches whose task failed and whose entry is in active_branches.
FailedTracked == {c \in active_branches \cap BranchCalls : btask[c] = "failed"}

\* C17: an entry leaves active_branches only in the step in which handle_event
\* takes a BranchResult of its id; the entry of a branch whose task failed is
\* never removed, and once max_concurrent_branches such entries exist every
\* spawn-branch call returns BranchLimitReached.
FailedBranchStays ==
    [][ /\ \A c \in active_branches :
              c \notin active_branches'
                  => /\ chanPc = "select"
                     /\ curEvent'.type = "BranchResult"
                     /\ curEvent'.id = c
        /\ FailedTracked \subseteq active_branches'
        /\ Cardinality(FailedTracked) >= max_concurrent_branches
              => \A c \in BranchCalls :
                    (bpc[c] = "idle" /\ bpc'[c] # "idle")
                        => bpc'[c] = "BranchLimitReached"
      ]_vars

FailedBranchStaysWitness ==
    /\ Cardinality(FailedTracked) >= max_concurrent_branches
    /\ \E c \in BranchCalls : bpc[c] = "BranchLimitReached"
    /\ history # <<>>

\* The synthetic messages waiting in a queue.
SystemMessages(q) == SelectSeq(q, LAMBDA m : m.source = "system")

\* C18: a synthetic message enters the inbound queue only in the retrigger
\* block of handle_event, with should_retrigger set and a conversation_id
\* known. A completion event handled while conversation_id is None has its
\* entry removed and its history entry pushed, the queue is left as it is, and
\* the flag is gone when the handler has returned.
RetriggerNeedsConversation ==
    [][ /\ Len(SystemMessages(message_rx')) > Len(SystemMessages(message_rx))
              => /\ chanPc = "ev_retrigger"
                 /\ should_retrigger
                 /\ conversation_id # "None"
        /\ (chanPc = "ev_retrigger" /\ ChannelStep /\ conversation_id = "None")
              => /\ message_rx' = message_rx
                 /\ should_retrigger
                       => /\ Len(history') = evHistLen + 1
                          /\ Last(history') = EventEntry(curEvent)
        /\ (chanPc = "select" /\ conversation_id = "None" /\ curEvent' # NoEvent)
              => /\ curEvent'.type = "BranchResult" => curEvent'.id \notin active_branches'
                 /\ curEvent'.type = "WorkerComplete" => curEvent'.id \notin active_workers'
        /\ (chanPc = "returned" /\ ChannelStep)
              => (should_retrigger' = FALSE /\ curEvent' = NoEvent)
      ]_vars

RetriggerNeedsConversationWitness ==
    /\ chanPc = "returned"
    /\ conversation_id = "None"
    /\ should_retrigger
    /\ curEvent.type = "WorkerComplete"
    /\ curEvent.id \in WorkerCalls
    /\ message_rx = <<>>

\* The calls of a turn up to the point where the agent runs.
Registered == <<"add_channel_tools", "Thinking", "prompt">>

\* C19: in every turn the tools are added before the agent is invoked and
\* removed after it returned, whatever its result; a failed add ends the turn
\* with Err before the Thinking status and before the agent; a failed removal
\* leaves the turn ending with Ok.
ToolsBracketAgent ==
    /\ chanPc = "agent" => turnLog = Registered
    /\ (chanPc = "returned" /\ curMsg # NoMsg)
          => IF lastReturn = "Err"
             THEN /\ turnLog = <<"add_channel_tools">>
                  /\ agentResult = "none"
             ELSE /\ lastReturn = "Ok"
                  /\ agentResult \in AgentResults
                  /\ turnLog = Registered \o <<"remove_channel_tools">>
                                 \o Reply(agentResult)
                  /\ \A removed \in BOOLEAN : TurnReturn(agentResult, removed) = "Ok"

ToolsBracketAgentWitness ==
    /\ chanPc = "returned"
    /\ agentResult = "cancelled"
    /\ lastReturn = "Ok"
    /\ turnLog = Registered \o <<"remove_channel_tools">>

\* C20: no turn waits for a tool's spawn-branch call while that call waits for
\* the history lock the turn holds.
NoToolDeadlock ==
    ~ \E c \in BranchCalls :
          /\ historyLock = "turn"
          /\ chanPc = "agent"
          /\ bByTurn[c]
          /\ bpc[c] = "checked"

\* handle_event is handling, or has just handled, the event it took off the bus.
Handling == chanPc \in {"ev_hist", "ev_retrigger", "returned"}

\* C21: whenever the channel handles the completion event of one of its
\* sub-processes, the spawn call that created it has finished its registration
\* steps, and no tracking or status entry of that sub-process is put in place
\* once its completion event has been taken.
NoStaleRegistration ==
    /\ \A c \in BranchCalls :
          (Handling /\ curEvent.type = "BranchResult" /\ curEvent.id = c)
              => /\ bpc[c] = "Ok"
                 /\ c \notin active_branches
                 /\ <<"branch", c>> \notin status_block
    /\ \A w \in WorkerCalls :
          (Handling /\ curEvent.type = "WorkerComplete" /\ curEvent.id = w)
              => /\ wpc[w] = "Ok"
                 /\ <<"worker", w>> \notin status_block

\* C21, the state left behind: the result of branch c was handled and the
\* loop is selecting again, the spawn call has returned, and its entries are
\* in active_branches and in the status block with nothing left to remove them.
StaleRegistrationWitness ==
    \E c \in BranchCalls :
        /\ chanPc = "select"
        /\ btask[c] = "done"
        /\ bpc[c] = "Ok"
        /\ event_rx = <<>>
        /\ ~lagged
        /\ c \in active_branches
        /\ <<"branch", c>> \in status_block

====
